---- MODULE Spec2Model ----
(***************************************************************************)
(* A model of the treesim per-tick simulation engine (multi-tree version): *)
(* init() builds the rack trees and the GC policy, simulate() runs the     *)
(* four-phase pipeline tick by tick, get_next_key() feeds keys and         *)
(* write_log() is the per-second reporter.                                 *)
(***************************************************************************)
EXTENDS Integers, Sequences, FiniteSets, Bags, TLC

VARIABLES cfg, pc, t, trees, nodes, keys, workers, emit_i, hist

vars == <<cfg, pc, t, trees, nodes, keys, workers, emit_i, hist>>

(***************************************************************************)
(* Bounds of the model.                                                    *)
(***************************************************************************)
MaxTreeRacks == 7
MaxFanout == 4
MaxRacks == 3
MaxNodes == 3
\* Messages generated per tick over all nodes of a run.
MaxLoad == 6
MaxMsgsPerTick == 2
MaxDuration == 2
\* The accumulated delay budget (gc_acc_delay) of a tree that init() builds.
MaxAccDelay == 8
\* Keys per data file (keys.size), scaled down from 2^30 / 32.
KeySize == 4

(***************************************************************************)
(* Flags read off the configuration of the run.                            *)
(***************************************************************************)
MsgSize == cfg.msg_size
TicksPerSec == cfg.ticks

----------------------------------------------------------------------------
(***************************************************************************)
(* Integer helpers.                                                        *)
(***************************************************************************)
CeilDiv(a, b) == (a + b - 1) \div b

Min(a, b) == IF a <= b THEN a ELSE b

RECURSIVE Power(_, _)
Power(b, e) == IF e = 0 THEN 1 ELSE b * Power(b, e - 1)

\* A 64-bit key is held as its two 32-bit halves: key = hi * 2^32 + lo.
Key(h, l) == [hi |-> h, lo |-> l]

\* The int that std::map<int,int> keys a 64-bit key under: its low 32 bits.
ToInt32(k) == k.lo

----------------------------------------------------------------------------
(***************************************************************************)
(* Tree builder.                                                           *)
(***************************************************************************)
RECURSIVE LevelsLoop(_, _, _)
LevelsLoop(fanout, target, l) ==
  IF Power(fanout, l) >= target THEN l ELSE LevelsLoop(fanout, target, l + 1)

\* ceil(log((fanout - 1) * n + 1) / log(fanout))
get_tree_levels(fanout, n) == LevelsLoop(fanout, (fanout - 1) * n + 1, 0)

RECURSIVE InternalLoop(_, _, _, _)
InternalLoop(fanout, n, sum, x) ==
  IF sum + x < n
    THEN InternalLoop(fanout, n, sum + x, x * fanout)
    ELSE n - ((n - sum) + (x \div fanout) - CeilDiv(n - sum, fanout))

get_internal_node_count(fanout, n) == InternalLoop(fanout, n, 0, 1)

NTrees(c) ==
  IF c.multitree
    THEN (IF c.fanout > 2 THEN c.fanout - 1 ELSE 2)
    ELSE 1

TotalNodes(c) == c.nracks * c.nodes_per_rack

NodeIds(c) == 0 .. (TotalNodes(c) - 1)

TreeIds(c) == 0 .. (NTrees(c) - 1)

IsHub(c, i) == i % c.nodes_per_rack = 0

HubOf(c, i) == i - (i % c.nodes_per_rack)

\* What a read past the end of a layout vector can yield.
GarbageVals(c) == -1 .. TotalNodes(c)

\* The swap loop of tree i, from index j on.  A swap partner past the end of
\* the vector is undefined behaviour: the read yields g[j], the write lands
\* outside the vector.
RECURSIVE SwapLoop(_, _, _, _, _, _)
SwapLoop(lay, nracks, i, ninternals, j, g) ==
  IF j >= ninternals THEN lay
  ELSE LET b == j + i * ninternals
           nxt == IF b < nracks
                    THEN [lay EXCEPT ![j] = lay[b], ![b] = lay[j]]
                    ELSE [lay EXCEPT ![j] = g[<<i, j>>]]
       IN  SwapLoop(nxt, nracks, i, ninternals, j + 1, g)

\* Fault: every tree keeps the layout of tree 0.
Layout_NoRotation(c, i, g) ==
  [j \in 0 .. (c.nracks - 1) |-> j * c.nodes_per_rack]

\* Level-order layout of tree i.
Layout(c, i, g) ==
  LET base == [j \in 0 .. (c.nracks - 1) |-> j * c.nodes_per_rack]
  IN  IF i > 0
        THEN SwapLoop(base, c.nracks, i,
                      get_internal_node_count(c.fanout, c.nracks), 0, g)
        ELSE base

\* The (tree, index) pairs whose swap partner lies past the end of the layout.
OobReads(c) ==
  { ij \in (1 .. (NTrees(c) - 1))
             \X (0 .. (get_internal_node_count(c.fanout, c.nracks) - 1)) :
      ij[2] + ij[1] * get_internal_node_count(c.fanout, c.nracks) >= c.nracks }

\* The link loop of tree i: node state ns, layout lay, cursor lo/hi/cnt.
RECURSIVE LinkLoop(_, _, _, _, _, _, _)
LinkLoop(ns, c, lay, i, lo, hi, cnt) ==
  IF hi >= c.nracks THEN ns
  ELSE IF cnt = c.fanout
         THEN LinkLoop(ns, c, lay, i, lo + 1, hi, 0)
         ELSE LinkLoop([ns EXCEPT ![lay[hi]].p[i] = lay[lo],
                                  ![lay[hi]].level[i] = ns[lay[lo]].level[i] + 1],
                       c, lay, i, lo, hi + 1, cnt + 1)

\* Root assignment and links of tree i.
BuildTree(ns, c, lay, i) ==
  LinkLoop([ns EXCEPT ![lay[0]].p[i] = -1, ![lay[0]].level[i] = 0],
           c, lay, i, 0, 1, 0)

RECURSIVE BuildTrees(_, _, _, _)
BuildTrees(ns, c, lays, i) ==
  IF i >= NTrees(c) THEN ns
  ELSE BuildTrees(BuildTree(ns, c, lays[i], i), c, lays, i + 1)

EmptyBufs(c) == [k \in TreeIds(c) |-> <<>>]

\* A node as init() leaves it before the trees are linked.
FreshNode(c, i) ==
  [ p |-> [k \in TreeIds(c) |-> IF IsHub(c, i) THEN 0 ELSE HubOf(c, i)],
    level |-> [k \in TreeIds(c) |-> IF IsHub(c, i) THEN 0 ELSE -1],
    gc |-> [k \in TreeIds(c) |-> FALSE],
    gc_delay |-> [k \in TreeIds(c) |-> 0],
    q |-> EmptyBag,
    buf |-> EmptyBufs(c),
    in |-> 0, out |-> 0,
    in_limit |-> c.in_limit, out_limit |-> c.out_limit,
    in_per_sec |-> 0, out_per_sec |-> 0, eff_out_per_sec |-> 0,
    self_per_sec |-> 0, saved_per_sec |-> 0,
    total_in_msgs |-> 0, total_out_msgs |-> 0,
    msgs_per_tick |-> c.msgs_per_tick ]

----------------------------------------------------------------------------
(***************************************************************************)
(* GC-policy assigner.                                                     *)
(***************************************************************************)
\* int(base_delay * mult) with base_delay = gc_acc_delay / double(denom)
DelayOf(acc, denom, mult) == (acc * mult) \div denom

GcDelayAt(c, levels, lvl) ==
  CASE c.gc_policy = 1 -> DelayOf(c.gc_acc_delay, levels, 1)
    [] c.gc_policy = 2 ->
         DelayOf(c.gc_acc_delay, ((levels + 1) * levels) \div 2, levels - lvl)
    [] c.gc_policy = 3 ->
         DelayOf(c.gc_acc_delay, ((levels + 1) * levels) \div 2, lvl + 1)
    [] OTHER -> 0

\* The policy loop over tree i, layout position j on.
RECURSIVE PolicyLoop(_, _, _, _, _)
PolicyLoop(ns, c, lays, i, j) ==
  IF i >= NTrees(c) THEN ns
  ELSE IF j >= c.nracks THEN PolicyLoop(ns, c, lays, i + 1, 0)
  ELSE LET n == lays[i][j]
           levels == get_tree_levels(c.fanout, c.nracks)
       IN  PolicyLoop([ns EXCEPT ![n].gc[i] = TRUE,
                                 ![n].gc_delay[i] =
                                    GcDelayAt(c, levels, ns[n].level[i])],
                      c, lays, i, j + 1)

\* Fault: the policy switch falls into case 1 whatever the policy.
AssignPolicy_Always(ns, c, lays) == PolicyLoop(ns, c, lays, 0, 0)

AssignPolicy(ns, c, lays) ==
  IF c.gc_policy \in {1, 2, 3} THEN PolicyLoop(ns, c, lays, 0, 0) ELSE ns

\* Every layout entry is used as an index into nodes.
LayoutsInRange(c, lays) ==
  \A i \in TreeIds(c) : \A j \in 0 .. (c.nracks - 1) : lays[i][j] \in NodeIds(c)

\* keys as init() sets it: the cursor at the end of an empty buffer.
InitialKeys == [size |-> KeySize, next |-> KeySize, fid |-> -1, data |-> <<>>]

\* History of the run: what was generated, what left at a root, and the
\* per-second counters summed over the whole run.
NoHist ==
  [ generated |-> 0, root_msgs |-> 0, root_eff |-> 0,
    self_bytes |-> 0, saved_bytes |-> 0, dropped |-> 0, reports |-> 0,
    gen |-> <<>>, last_push |-> <<>>,
    nread |-> 0, bad_refill |-> FALSE, unread_keys |-> 0,
    passed |-> <<>>, ticks_in_report |-> 0, mistimed |-> 0 ]

\* init(): build the trees and the policy.  An out-of-range layout index
\* either crashes or leaves garbage in the layout.
init ==
  /\ pc = "start"
  /\ \E g \in [OobReads(cfg) -> GarbageVals(cfg)], crash \in BOOLEAN :
       LET lays == [i \in TreeIds(cfg) |-> Layout(cfg, i, g)]
           \* with no rack the root assignment reads trees[i][0] of an empty
           \* vector and writes through it
           overrun == OobReads(cfg) # {} \/ cfg.nracks = 0
           fresh == [i \in NodeIds(cfg) |-> FreshNode(cfg, i)]
       IN  /\ overrun \/ ~crash
           /\ IF (overrun /\ crash) \/ ~LayoutsInRange(cfg, lays)
                THEN /\ pc' = "crashed"
                     /\ UNCHANGED <<trees, nodes>>
                ELSE /\ pc' = "tick"
                     /\ trees' = lays
                     /\ nodes' = IF cfg.nracks = 0 THEN fresh
                                 ELSE AssignPolicy(
                                        BuildTrees(fresh, cfg, lays, 0),
                                        cfg, lays)
  /\ keys' = InitialKeys
  /\ hist' = [hist EXCEPT !.gen = [i \in NodeIds(cfg) |-> <<>>],
                          !.last_push = [i \in NodeIds(cfg) |-> -1],
                          !.passed = [i \in NodeIds(cfg) |->
                                        [k \in TreeIds(cfg) |-> 0]]]
  /\ UNCHANGED <<cfg, t, workers, emit_i>>

----------------------------------------------------------------------------
(***************************************************************************)
(* KeySource.                                                              *)
(***************************************************************************)
\* The n-th token (0-based) of file data-<fid>: the key stream of the run is
\* the pattern c.keypat repeated.
FileToken(c, fid, n) ==
  c.keypat[((fid * KeySize + n) % Len(c.keypat)) + 1]

\* A token of a key file: an integer, or a word that is not one.
IntTok(k) == [int |-> TRUE, val |-> k]

WordTok == [int |-> FALSE, val |-> Key(0, 0)]

\* A negative 64-bit value.
NegKey == Key(-1, 0)

\* A non-negative value that no key file holds.
StaleKey == Key(0, 2)

\* What an int64_t that was never written may hold.
Indeterminate == {StaleKey, NegKey}

\* Does data-<fid> open?
FileOpens(c, fid) == ~(c.fault.kind = "missing" /\ c.fault.fid = fid)

\* The tokens of data-<fid>.  A run is given at most one faulty file: a
\* missing one, one that ends after its first token, or one whose second
\* token is a word or a negative integer.
ReadFile(c, fid) ==
  LET full == [n \in 1 .. KeySize |-> IntTok(FileToken(c, fid, n - 1))]
  IN  IF c.fault.fid # fid \/ c.fault.kind = "none" THEN full
      ELSE IF c.fault.kind = "missing" THEN <<>>
      ELSE IF c.fault.kind = "short" THEN SubSeq(full, 1, 1)
      ELSE IF c.fault.kind = "word" THEN [full EXCEPT ![2] = WordTok]
      ELSE [full EXCEPT ![2] = IntTok(NegKey)]

\* keyfile >> x for token i (0-based) into a fresh int64_t x: the values x may
\* hold afterwards.  A stream that has failed, or that is at its end, leaves
\* x unwritten; a conversion that fails stores zero.
Extract(toks, i, good) ==
  IF good /\ i < Len(toks)
    THEN IF toks[i + 1].int THEN {toks[i + 1].val} ELSE {Key(0, 0)}
    ELSE Indeterminate

\* The refill loop from token i on: the buffers it can end with, how many
\* of their entries were read from the file, and whether CHECK(x >= 0) failed.
RECURSIVE ReadLoop(_, _, _, _, _)
ReadLoop(toks, i, good, data, nread) ==
  IF i >= KeySize THEN {[data |-> data, nread |-> nread, fatal |-> FALSE]}
  ELSE LET hit == good /\ i < Len(toks) /\ toks[i + 1].int
       IN  UNION { IF x.hi >= 0
                     THEN ReadLoop(toks, i + 1, hit, Append(data, x),
                                   IF hit THEN nread + 1 ELSE nread)
                     ELSE {[data |-> data, nread |-> nread, fatal |-> TRUE]} :
                   x \in Extract(toks, i, good) }

\* Is data-<fid> the faulty file of the run?
FileFaulty(c, fid) == c.fault.kind # "none" /\ c.fault.fid = fid

\* get_next_key(): the outcomes of one call on buffer ks: the key returned,
\* the buffer afterwards, whether the call refilled and whether it died.
get_next_key(ks, c) ==
  IF ks.next = ks.size
    THEN { [ keys |-> [ks EXCEPT !.fid = ks.fid + 1, !.data = r.data,
                                 !.next = IF r.fatal THEN ks.next ELSE 1],
             result |-> IF r.fatal THEN NegKey ELSE r.data[1],
             refill |-> TRUE, nread |-> r.nread, fatal |-> r.fatal ] :
           r \in ReadLoop(ReadFile(c, ks.fid + 1), 0,
                           FileOpens(c, ks.fid + 1), <<>>, 0) }
    ELSE { [ keys |-> [ks EXCEPT !.next = ks.next + 1],
             result |-> ks.data[ks.next + 1],
             refill |-> FALSE, nread |-> 0, fatal |-> FALSE ] }

----------------------------------------------------------------------------
(***************************************************************************)
(* Node pipeline, phases 1 to 3 (process_messages_by_node).                *)
(***************************************************************************)
DurationTicks(c) == c.duration * TicksPerSec

\* Message::operator< orders by time.
MsgLess(a, b) == a.time < b.time

\* q.top() of std::priority_queue<Message>: an element that no other element
\* is greater than under operator<.
Top(q) == { m \in BagToSet(q) : \A o \in BagToSet(q) : ~MsgLess(m, o) }

\* The time a message gets when node n takes it on tree k at tick tt.
Stamp(n, k, tt) == IF n.gc[k] THEN tt + n.gc_delay[k] ELSE tt

\* Fault: the step 1 guard tests the bytes already admitted, not the bytes
\* after the next admission.
CanAdmit_OffByOne(n) == n.q # EmptyBag /\ n.in <= n.in_limit

\* Step 1 loop guard.
CanAdmit(n) == n.q # EmptyBag /\ n.in + MsgSize <= n.in_limit

\* Fault: step 1 keeps the time the sender gave the message.
AdmitMsg_NoRestamp(n, m, tt) ==
  [n EXCEPT !.buf[m.tree] = Append(@, m),
            !.q = @ (-) SetToBag({m}),
            !.in = @ + MsgSize,
            !.total_in_msgs = @ + 1]

\* One iteration of the step 1 loop, admitting m.
AdmitMsg(n, m, tt) ==
  [n EXCEPT !.buf[m.tree] = Append(@, [m EXCEPT !.time = Stamp(n, m.tree, tt)]),
            !.q = @ (-) SetToBag({m}),
            !.in = @ + MsgSize,
            !.total_in_msgs = @ + 1]

\* Fault: step 2 leaves eff_size at zero.
NewMsg_ZeroEff(n, c, j, tt, key) ==
  LET k == (j + tt) % NTrees(c)
  IN  [type |-> 0, key |-> key, eff_size |-> 0, time |-> Stamp(n, k, tt),
       tree |-> k]

\* History: the sum of gc_delay[k] over node i and its ancestors on tree k,
\* following at most fuel parent links.
RECURSIVE DelaySum(_, _, _, _)
DelaySum(ns, i, k, fuel) ==
  IF i \notin DOMAIN ns \/ fuel = 0 THEN 0
  ELSE ns[i].gc_delay[k] + DelaySum(ns, ns[i].p[k], k, fuel - 1)

\* History: following at most fuel parent links of tree k from node i leads
\* to a node whose parent is -1.
RECURSIVE RootAhead(_, _, _, _)
RootAhead(ns, i, k, fuel) ==
  IF i \notin DOMAIN ns \/ fuel = 0 THEN FALSE
  ELSE ns[i].p[k] = -1 \/ RootAhead(ns, ns[i].p[k], k, fuel - 1)

\* History: the tick at which the root of tree k should emit a message that
\* node i generates at tick tt: tt + level + delays along the path for a hub,
\* one tick more than its hub's for another node; -1 when the parent links
\* lead to no root, so that no tick is late enough.
PathDue(ns, c, i, k, tt) ==
  LET h == IF IsHub(c, i) THEN i ELSE ns[i].p[k]
  IN  IF ~RootAhead(ns, h, k, TotalNodes(c)) THEN -1
      ELSE tt + (IF IsHub(c, i) THEN 0 ELSE 1) + ns[h].level[k]
              + DelaySum(ns, h, k, TotalNodes(c))

\* No limit binds: in_limit and out_limit let through in one tick all the
\* messages the nodes generate in one tick.
NeverBinds(c) ==
  c.in_limit >= c.msg_size * MaxLoad /\ c.out_limit >= c.msg_size * MaxLoad

\* History: message m carrying the tick its root emission is due.
Tagged(m, due) == m @@ [due |-> due]

\* One iteration of the step 2 loop.
NewMsg(n, c, j, tt, key) ==
  LET k == (j + tt) % NTrees(c)
  IN  [type |-> 0, key |-> key, eff_size |-> 1, time |-> Stamp(n, k, tt),
       tree |-> k]

\* Fault: the walk turns a duplicate into a tombstone without adding its
\* eff_size to the first position.
RECURSIVE GcWalk_NoAbsorb(_, _, _, _, _)
GcWalk_NoAbsorb(b, j, pos, table, saved) ==
  IF j >= pos THEN [buf |-> b, saved |-> saved]
  ELSE LET m == b[j + 1]
           ik == ToInt32(m.key)
       IN  IF m.type = 0
             THEN IF ik \in DOMAIN table
                    THEN GcWalk_NoAbsorb([b EXCEPT ![j + 1].type = 1],
                                         j + 1, pos, table, saved + 1)
                    ELSE GcWalk_NoAbsorb(b, j + 1, pos, table @@ (ik :> j), saved)
             ELSE GcWalk_NoAbsorb(b, j + 1, pos, table, saved)

\* Fault: the walk adds a duplicate's eff_size to the first position but
\* leaves the duplicate a data message.
RECURSIVE GcWalk_KeepsData(_, _, _, _, _)
GcWalk_KeepsData(b, j, pos, table, saved) ==
  IF j >= pos THEN [buf |-> b, saved |-> saved]
  ELSE LET m == b[j + 1]
           ik == ToInt32(m.key)
       IN  IF m.type = 0
             THEN IF ik \in DOMAIN table
                    THEN GcWalk_KeepsData([b EXCEPT ![table[ik] + 1].eff_size =
                                                      @ + m.eff_size],
                                          j + 1, pos, table, saved + 1)
                    ELSE GcWalk_KeepsData(b, j + 1, pos, table @@ (ik :> j), saved)
             ELSE GcWalk_KeepsData(b, j + 1, pos, table, saved)

\* The GC walk over positions j .. pos-1 of buffer b (positions are 0-based,
\* table maps an int key to the position that first held it).
RECURSIVE GcWalk(_, _, _, _, _)
GcWalk(b, j, pos, table, saved) ==
  IF j >= pos THEN [buf |-> b, saved |-> saved]
  ELSE LET m == b[j + 1]
           ik == ToInt32(m.key)
       IN  IF m.type = 0
             THEN IF ik \in DOMAIN table
                    THEN GcWalk([b EXCEPT ![j + 1].type = 1,
                                          ![table[ik] + 1].eff_size =
                                             @ + m.eff_size],
                                j + 1, pos, table, saved + 1)
                    ELSE GcWalk(b, j + 1, pos, table @@ (ik :> j), saved)
             ELSE GcWalk(b, j + 1, pos, table, saved)

EmptyTable == [x \in {} |-> 0]

\* Fault: step 3 walks the buffers in every tick.
RECURSIVE Compact_EveryTick(_, _, _, _)
Compact_EveryTick(n, c, k, tt) ==
  IF k >= NTrees(c) THEN n
  ELSE IF n.gc[k] /\ n.buf[k] # <<>>
         THEN LET r == GcWalk(n.buf[k], 0, Len(n.buf[k]), EmptyTable, 0)
              IN  Compact_EveryTick([n EXCEPT !.buf[k] = r.buf,
                                              !.saved_per_sec =
                                                 @ + r.saved * MsgSize],
                                    c, k + 1, tt)
         ELSE Compact_EveryTick(n, c, k + 1, tt)

\* Step 3 for trees k .. T-1 of node n.
RECURSIVE Compact(_, _, _, _)
Compact(n, c, k, tt) ==
  IF k >= NTrees(c) THEN n
  ELSE IF n.gc[k] /\ tt % c.gc_period = 0 /\ n.buf[k] # <<>>
         THEN LET r == GcWalk(n.buf[k], 0, Len(n.buf[k]), EmptyTable, 0)
              IN  Compact([n EXCEPT !.buf[k] = r.buf,
                                    !.saved_per_sec = @ + r.saved * MsgSize],
                          c, k + 1, tt)
         ELSE Compact(n, c, k + 1, tt)

\* The node a worker is at.
Cur(w) == workers[w].cur

Busy(w) == pc = "work" /\ w \in DOMAIN workers /\ Cur(w) < workers[w].hi

\* Top of the per-node loop: clear the per-tick counters.
Begin(w) ==
  /\ Busy(w) /\ workers[w].ph = "begin"
  /\ nodes' = [nodes EXCEPT ![Cur(w)].in = 0, ![Cur(w)].out = 0]
  /\ workers' = [workers EXCEPT ![w].ph = "admit"]
  /\ hist' = [hist EXCEPT !.gen[Cur(w)] =
                 Append(@, [k \in TreeIds(cfg) |-> 0])]
  /\ UNCHANGED <<cfg, pc, t, trees, keys, emit_i>>

\* Step 1, one admission.
Admit(w) ==
  /\ Busy(w) /\ workers[w].ph = "admit"
  /\ CanAdmit(nodes[Cur(w)])
  /\ \E m \in Top(nodes[Cur(w)].q) :
       nodes' = [nodes EXCEPT ![Cur(w)] = AdmitMsg(@, m, t)]
  /\ UNCHANGED <<cfg, pc, t, trees, keys, workers, emit_i, hist>>

\* Step 1 ends.
AdmitDone(w) ==
  /\ Busy(w) /\ workers[w].ph = "admit"
  /\ ~CanAdmit(nodes[Cur(w)])
  /\ nodes' = [nodes EXCEPT ![Cur(w)].in_per_sec = @ + nodes[Cur(w)].in]
  /\ workers' = [workers EXCEPT ![w].ph = "gen", ![w].j = 0]
  /\ UNCHANGED <<cfg, pc, t, trees, keys, emit_i, hist>>

\* Step 2, one message.
Generate(w) ==
  /\ Busy(w) /\ workers[w].ph = "gen"
  /\ workers[w].j < nodes[Cur(w)].msgs_per_tick
  /\ \E r \in get_next_key(keys, cfg) :
       LET m == Tagged(NewMsg(nodes[Cur(w)], cfg, workers[w].j, t, r.result),
                       PathDue(nodes, cfg, Cur(w),
                               (workers[w].j + t) % NTrees(cfg), t))
           nread == IF r.refill THEN r.nread ELSE hist.nread
           h == [hist EXCEPT
                   !.nread = nread,
                   !.bad_refill = @ \/ (r.refill /\ FileFaulty(cfg, r.keys.fid))]
       IN  /\ keys' = r.keys
           /\ IF r.fatal
                THEN /\ pc' = "keyfatal"
                     /\ hist' = h
                     /\ UNCHANGED <<nodes, workers>>
                ELSE /\ pc' = pc
                     /\ nodes' = [nodes EXCEPT
                                    ![Cur(w)].buf[m.tree] = Append(@, m)]
                     /\ hist' = [h EXCEPT
                          !.generated = @ + 1,
                          !.gen[Cur(w)][Len(hist.gen[Cur(w)])][m.tree] = @ + 1,
                          !.unread_keys =
                             IF r.keys.next > nread THEN @ + 1 ELSE @]
                     /\ workers' = [workers EXCEPT ![w].j = @ + 1]
  /\ UNCHANGED <<cfg, t, trees, emit_i>>

\* Step 2 ends, step 3 runs, the worker moves to its next node.
Collect(w) ==
  /\ Busy(w) /\ workers[w].ph = "gen"
  /\ workers[w].j >= nodes[Cur(w)].msgs_per_tick
  /\ LET n1 == [nodes[Cur(w)] EXCEPT
                  !.self_per_sec = @ + nodes[Cur(w)].msgs_per_tick * MsgSize]
         n2 == Compact(n1, cfg, 0, t)
     IN  /\ nodes' = [nodes EXCEPT ![Cur(w)] = n2]
         /\ hist' = [hist EXCEPT
                       !.self_bytes = @ + nodes[Cur(w)].msgs_per_tick * MsgSize,
                       !.saved_bytes = @ + (n2.saved_per_sec - n1.saved_per_sec)]
  /\ workers' = [workers EXCEPT ![w].cur = @ + 1, ![w].ph = "begin"]
  /\ UNCHANGED <<cfg, pc, t, trees, keys, emit_i>>

----------------------------------------------------------------------------
(***************************************************************************)
(* Tick scheduler (simulate).                                              *)
(***************************************************************************)
\* The chunk [begin, end) of worker i.
ChunkBegin(c, i) == (TotalNodes(c) \div c.nthreads) * i

ChunkEnd(c, i) ==
  Min(ChunkBegin(c, i) + (TotalNodes(c) \div c.nthreads), TotalNodes(c))

\* Top of the tick loop: hand the nodes to the workers.
Spawn ==
  /\ pc = "tick" /\ t < DurationTicks(cfg)
  /\ workers' =
       IF cfg.nthreads > 1
         THEN [i \in 0 .. (cfg.nthreads - 1) |->
                 [cur |-> ChunkBegin(cfg, i), hi |-> ChunkEnd(cfg, i),
                  ph |-> "begin", j |-> 0]]
         ELSE [i \in {0} |->
                 [cur |-> 0, hi |-> TotalNodes(cfg), ph |-> "begin", j |-> 0]]
  /\ pc' = "work"
  /\ UNCHANGED <<cfg, t, trees, nodes, keys, emit_i, hist>>

\* All workers have returned.
Join ==
  /\ pc = "work"
  /\ \A w \in DOMAIN workers : workers[w].cur >= workers[w].hi
  /\ pc' = "emit"
  /\ emit_i' = 0
  /\ UNCHANGED <<cfg, t, trees, nodes, keys, workers, hist>>

\* Fault: step 4 does not drop tombstones from the front.
DropTombstones_None(b) == b

\* Fault: step 4 removes every tombstone of the buffer, wherever it sits.
DropTombstones_Anywhere(b) == SelectSeq(b, LAMBDA m : m.type = 0)

\* Drop tombstones from the front of a buffer.
RECURSIVE DropTombstones(_)
DropTombstones(b) ==
  IF b # <<>> /\ Head(b).type # 0 THEN DropTombstones(Tail(b)) ELSE b

\* Step 4 guard on a buffer whose front is not a tombstone.
CanEmit(n, b, tt) ==
  b # <<>> /\ Head(b).time <= tt /\ n.out + MsgSize <= n.out_limit

\* Fault: step 4 hands the message straight to the parent's buffer.
Deliver_IntoBuf(ns, par, m) ==
  IF par # -1 THEN [ns EXCEPT ![par].buf[m.tree] = Append(@, m)] ELSE ns

\* Step 4 hands message m to the parent par, if there is one.
Deliver(ns, par, m) ==
  IF par # -1 THEN [ns EXCEPT ![par].q = @ (+) SetToBag({m})] ELSE ns

\* One pass of step 4 at node i over trees k .. T-1.
RECURSIVE EmitPass(_, _, _, _, _)
EmitPass(st, c, i, k, tt) ==
  IF k >= NTrees(c) THEN st
  ELSE LET b == DropTombstones(st.ns[i].buf[k])
           ns1 == [st.ns EXCEPT ![i].buf[k] = b]
           h1 == [st.h EXCEPT !.dropped = @ + Len(st.ns[i].buf[k]) - Len(b)]
       IN  IF CanEmit(ns1[i], b, tt)
             THEN LET par == ns1[i].p[k]
                      ns2 == Deliver(ns1, par, Head(b))
                      ns3 == [ns2 EXCEPT
                                ![i].out = @ + MsgSize,
                                ![i].out_per_sec = @ + MsgSize,
                                ![i].total_out_msgs = @ + 1,
                                ![i].eff_out_per_sec = @ + Head(b).eff_size * MsgSize,
                                ![i].buf[k] = Tail(b)]
                      h2 == IF par = -1
                              THEN [h1 EXCEPT !.root_msgs = @ + 1,
                                              !.root_eff = @ + Head(b).eff_size,
                                              !.mistimed = @ +
                                                 IF Head(b).due = tt THEN 0 ELSE 1]
                              ELSE [h1 EXCEPT !.last_push[par] = tt]
                  IN  EmitPass([ns |-> ns3, h |-> h2, flag |-> TRUE,
                                failed |-> st.failed \/ Head(b).eff_size <= 0],
                               c, i, k + 1, tt)
             ELSE EmitPass([st EXCEPT !.ns = ns1, !.h = h1], c, i, k + 1, tt)

\* Step 4 at node i: passes until one emits nothing.
RECURSIVE EmitLoop(_, _, _, _)
EmitLoop(st, c, i, tt) ==
  LET r == EmitPass([st EXCEPT !.flag = FALSE], c, i, 0, tt)
  IN  IF r.flag THEN EmitLoop(r, c, i, tt) ELSE r

\* Step 4 took node old to node new at tick tt, emitted on some tree, and
\* left the front of buf[k], a data message that was due, where it was.
PassedOver(old, new, k, tt) ==
  /\ new.out > 0
  /\ new.buf[k] = old.buf[k] /\ new.buf[k] # <<>>
  /\ Head(new.buf[k]).type = 0 /\ Head(new.buf[k]).time <= tt

\* Step 4 for the next node, in id order.
Emit ==
  /\ pc = "emit" /\ emit_i < TotalNodes(cfg)
  /\ LET r == EmitLoop([ns |-> nodes, h |-> hist, flag |-> FALSE,
                        failed |-> FALSE], cfg, emit_i, t)
     IN  /\ nodes' = r.ns
         /\ hist' = [r.h EXCEPT !.passed[emit_i] =
                       [k \in TreeIds(cfg) |->
                          IF PassedOver(nodes[emit_i], r.ns[emit_i], k, t)
                            THEN @[k] + 1 ELSE 0]]
         /\ pc' = IF r.failed THEN "fatal" ELSE pc
  /\ emit_i' = emit_i + 1
  /\ UNCHANGED <<cfg, t, trees, keys, workers>>

\* Is the reporter due after tick tt?
LogDue(tt) == tt # 0 /\ tt % TicksPerSec = 0

\* End of the loop body: report if due, else go to the next tick.
EndTick ==
  /\ pc = "emit" /\ emit_i >= TotalNodes(cfg)
  /\ IF LogDue(t)
       THEN pc' = "log" /\ t' = t
       ELSE pc' = "tick" /\ t' = t + 1
  /\ hist' = [hist EXCEPT !.ticks_in_report = @ + 1]
  /\ UNCHANGED <<cfg, trees, nodes, keys, workers, emit_i>>

\* The loop is over: the last report.
Finish ==
  /\ pc = "tick" /\ t >= DurationTicks(cfg)
  /\ pc' = "log"
  /\ UNCHANGED <<cfg, t, trees, nodes, keys, workers, emit_i, hist>>

(***************************************************************************)
(* Reporter.                                                               *)
(***************************************************************************)
\* write_log(): read the per-second counters, then reset them.
write_log ==
  /\ pc = "log"
  /\ nodes' = [i \in DOMAIN nodes |->
                 [nodes[i] EXCEPT !.in_per_sec = 0, !.out_per_sec = 0,
                                  !.eff_out_per_sec = 0, !.self_per_sec = 0,
                                  !.saved_per_sec = 0]]
  /\ hist' = [hist EXCEPT !.reports = @ + 1, !.ticks_in_report = 0]
  /\ IF t >= DurationTicks(cfg)
       THEN pc' = "done" /\ t' = t
       ELSE pc' = "tick" /\ t' = t + 1
  /\ UNCHANGED <<cfg, trees, keys, workers, emit_i>>

----------------------------------------------------------------------------
(***************************************************************************)
(* Specification of init() alone, over a wide range of configurations.     *)
(***************************************************************************)
K00 == Key(0, 0)
K01 == Key(0, 1)
K10 == Key(1, 0)

NoFault == [kind |-> "none", fid |-> 0]

TreeConfigs ==
  [ nracks : 1 .. MaxTreeRacks, nodes_per_rack : 1 .. 2,
    fanout : 2 .. MaxFanout, multitree : BOOLEAN,
    gc_policy : 0 .. 3, gc_period : {2}, gc_acc_delay : 0 .. MaxAccDelay,
    msgs_per_tick : {1}, msg_size : {2}, in_limit : {40}, out_limit : {40},
    duration : {1}, ticks : {2}, nthreads : {1}, keypat : {<<K00>>},
    fault : {NoFault} ]

\* The configurations the flags are meant for.
ValidConfig(c) == c.nracks > 0 /\ c.fanout >= 2

\* Configurations with no rack or with fanout 1, without GC.
BadConfigs ==
  { c \in [ nracks : 0 .. MaxRacks, nodes_per_rack : 1 .. 2,
            fanout : 1 .. 2, multitree : BOOLEAN,
            gc_policy : {0}, gc_period : {2}, gc_acc_delay : {7},
            msgs_per_tick : {1}, msg_size : {2}, in_limit : {40},
            out_limit : {40}, duration : {1}, ticks : {2}, nthreads : {1},
            keypat : {<<K00>>}, fault : {NoFault} ] : ~ValidConfig(c) }

\* Before init(): the globals as constructed.
InitCommon ==
  /\ pc = "start"
  /\ t = 0
  /\ trees = <<>>
  /\ nodes = <<>>
  /\ keys = [size |-> 0, next |-> 0, fid |-> 0, data |-> <<>>]
  /\ workers = <<>>
  /\ emit_i = 0
  /\ hist = NoHist

InitTree == cfg \in (TreeConfigs \cup BadConfigs) /\ InitCommon

NextTree == init

SpecTree == InitTree /\ [][NextTree]_vars

(***************************************************************************)
(* Specification of whole runs, over small configurations.                 *)
(***************************************************************************)
KeyPatterns == { <<K00>>, <<K00, K01, K00>>, <<K00, K10>> }

\* Per-tick limits (flag / ticks): exactly one message, one message and a
\* spare byte, ample.
Limits == {2, 3, 40}

Ample(l) == \A x \in Limits : x <= l

\* The faulty key file of a run, if any: data-0 or data-1.
Faults ==
  {NoFault} \cup
    [kind : {"missing", "short", "word", "negative"}, fid : {0, 1}]

SimConfigs ==
  { c \in [ nracks : 1 .. MaxRacks, nodes_per_rack : 1 .. 2,
            fanout : {2}, multitree : BOOLEAN,
            gc_policy : 0 .. 3, gc_period : {2}, gc_acc_delay : {2},
            msgs_per_tick : 1 .. MaxMsgsPerTick, msg_size : {2},
            in_limit : Limits, out_limit : Limits,
            duration : 1 .. MaxDuration, ticks : {2}, nthreads : 1 .. 2,
            keypat : KeyPatterns, fault : Faults ] :
      /\ TotalNodes(c) <= MaxNodes
      /\ TotalNodes(c) * c.msgs_per_tick <= MaxLoad
      /\ c.nthreads = 1 => c.duration = MaxDuration
      \* runs with a faulty key file are explored for fewer settings of the
      \* rest
      /\ c.fault # NoFault =>
           /\ c.nthreads = 1 /\ c.gc_policy = 0 /\ ~c.multitree
           /\ c.keypat = <<K00, K01, K00>>
           /\ Ample(c.in_limit) /\ Ample(c.out_limit)
      \* runs on two threads last one second and are explored for fewer
      \* settings of the rest
      /\ c.nthreads > 1 =>
           /\ c.duration = 1
           /\ c.gc_policy <= 1
           /\ c.keypat = <<K00, K01, K00>>
           /\ Ample(c.in_limit) }

Init == cfg \in SimConfigs /\ InitCommon

Next ==
  \/ init
  \/ Spawn
  \/ \E w \in DOMAIN workers : Begin(w)
  \/ \E w \in DOMAIN workers : Admit(w)
  \/ \E w \in DOMAIN workers : AdmitDone(w)
  \/ \E w \in DOMAIN workers : Generate(w)
  \/ \E w \in DOMAIN workers : Collect(w)
  \/ Join
  \/ Emit
  \/ EndTick
  \/ Finish
  \/ write_log

Spec == Init /\ [][Next]_vars

----------------------------------------------------------------------------
(***************************************************************************)
(* Measures over a state, used by the properties below.                    *)
(***************************************************************************)
\* init() has completed.
Built == pc \notin {"start", "crashed"}

\* Phase 4 of the current tick has run at every node.
AtTickBoundary ==
  \/ pc \in {"tick", "log", "done"}
  \/ pc = "emit" /\ emit_i >= TotalNodes(cfg)

RECURSIVE SumFn(_)
SumFn(f) ==
  IF DOMAIN f = {} THEN 0
  ELSE LET x == CHOOSE y \in DOMAIN f : TRUE
       IN  f[x] + SumFn([y \in DOMAIN f \ {x} |-> f[y]])

\* Positions of a buffer holding data / tombstones.
DataAt(b) == { x \in DOMAIN b : b[x].type = 0 }
TombAt(b) == { x \in DOMAIN b : b[x].type # 0 }

\* Sum of eff_size over the data messages of a buffer, of a queue.
BufEff(b) == SumFn([x \in DataAt(b) |-> b[x].eff_size])
QueueEff(q) ==
  SumFn([m \in BagToSet(q) |->
           IF m.type = 0 THEN CopiesIn(m, q) * m.eff_size ELSE 0])
QueueData(q) ==
  SumFn([m \in BagToSet(q) |-> IF m.type = 0 THEN CopiesIn(m, q) ELSE 0])

NodeBufEff(n) == SumFn([k \in DOMAIN n.buf |-> BufEff(n.buf[k])])
NodeBufData(n) == SumFn([k \in DOMAIN n.buf |-> Cardinality(DataAt(n.buf[k]))])
NodeTombs(n) == SumFn([k \in DOMAIN n.buf |-> Cardinality(TombAt(n.buf[k]))])

\* Over all nodes: effective size held, data messages held, tombstones held.
LiveEff ==
  SumFn([i \in DOMAIN nodes |-> NodeBufEff(nodes[i]) + QueueEff(nodes[i].q)])
LiveData ==
  SumFn([i \in DOMAIN nodes |-> NodeBufData(nodes[i]) + QueueData(nodes[i].q)])
LiveTombs == SumFn([i \in DOMAIN nodes |-> NodeTombs(nodes[i])])

----------------------------------------------------------------------------
(***************************************************************************)
(* Properties.                                                             *)
(***************************************************************************)

\* C1: at every node, in every state, the per-tick counters stay within the
\* per-tick ceilings: in <= in_limit and out <= out_limit, so at most
\* floor(limit / msg_size) messages are admitted, and emitted, in a tick.
C1_BandwidthDiscipline ==
  Built => \A i \in DOMAIN nodes :
             /\ nodes[i].in <= nodes[i].in_limit
             /\ nodes[i].out <= nodes[i].out_limit
             /\ nodes[i].in \div MsgSize <= nodes[i].in_limit \div MsgSize
             /\ nodes[i].out \div MsgSize <= nodes[i].out_limit \div MsgSize

\* A node whose in_limit cut admission short (messages are left in its queue
\* after phase 1) and a node whose out_limit cut emission short.
C1_Witness ==
  /\ pc = "emit" /\ emit_i >= TotalNodes(cfg)
  /\ \E i \in DOMAIN nodes :
       /\ nodes[i].in > 0
       /\ nodes[i].in + MsgSize > nodes[i].in_limit
       /\ nodes[i].total_in_msgs > 1
  /\ \E i \in DOMAIN nodes :
       /\ nodes[i].out > 0
       /\ nodes[i].out + MsgSize > nodes[i].out_limit
       /\ \E k \in DOMAIN nodes[i].buf :
            nodes[i].buf[k] # <<>> /\ Head(nodes[i].buf[k]).time <= t

\* C2 as stated: at every tick boundary the eff_size held in buffers and
\* queues plus the number of tombstones held equals what was generated minus
\* what left at a root.
C2_AsStated ==
  (Built /\ AtTickBoundary) => LiveEff + LiveTombs = hist.generated - hist.root_eff

\* C2 amended: at every tick boundary the eff_size held in buffers and queues
\* equals the number of messages generated minus the eff_size that left at a
\* root; tombstones carry no mass.
C2_MassConservation ==
  (Built /\ AtTickBoundary) => LiveEff = hist.generated - hist.root_eff

\* A tick boundary with tombstones held, merged messages held and merged
\* messages already gone at a root.
C2_Witness ==
  /\ Built /\ AtTickBoundary
  /\ LiveTombs > 0
  /\ LiveEff > LiveData
  /\ hist.root_eff > hist.root_msgs

\* C3 as stated: when the run is over, the bytes self-generated equal the
\* bytes saved by GC plus the effective bytes emitted at roots.
C3_AsStated ==
  pc = "done" => hist.self_bytes = hist.saved_bytes + hist.root_eff * MsgSize

\* C3 amended: when the run is over, the bytes self-generated equal the
\* effective bytes emitted at roots plus the effective bytes still held in
\* buffers and queues; counted per physical message, they equal the bytes
\* saved plus the bytes emitted at roots plus the data messages still held.
C3_EndOfRunConservation ==
  pc = "done" =>
    /\ hist.self_bytes = (hist.root_eff + LiveEff) * MsgSize
    /\ hist.self_bytes =
         hist.saved_bytes + (hist.root_msgs + LiveData) * MsgSize

\* A finished run that saved bytes, emitted at a root and still holds messages.
C3_Witness ==
  /\ pc = "done"
  /\ hist.saved_bytes > 0
  /\ hist.root_eff > hist.root_msgs
  /\ LiveEff > 0

\* No queue holds a tombstone.
NoTombstoneQueued ==
  Built => \A i \in DOMAIN nodes :
             \A m \in BagToSet(nodes[i].q) : m.type = 0

\* A step of phase 4 at a node counts exactly the data messages it removes
\* from the node's buffers, and what it removes is removed from the front.
EmitCountsData ==
  (pc = "emit" /\ emit_i' = emit_i + 1) =>
    LET i == emit_i
        gone == NodeBufData(nodes[i]) - NodeBufData(nodes'[i])
    IN  /\ nodes'[i].total_out_msgs - nodes[i].total_out_msgs = gone
        /\ nodes'[i].out - nodes[i].out = gone * MsgSize
        /\ nodes'[i].out_per_sec - nodes[i].out_per_sec = gone * MsgSize
        /\ nodes'[i].eff_out_per_sec - nodes[i].eff_out_per_sec =
             (NodeBufEff(nodes[i]) - NodeBufEff(nodes'[i])) * MsgSize
        /\ hist'.dropped - hist.dropped =
             NodeTombs(nodes[i]) - NodeTombs(nodes'[i])
        /\ \A k \in DOMAIN nodes[i].buf :
             LET old == nodes[i].buf[k]
                 new == nodes'[i].buf[k]
             IN  /\ Len(new) <= Len(old)
                 /\ new = SubSeq(old, Len(old) - Len(new) + 1, Len(old))

\* C4: tombstones are never transmitted: no queue ever holds one, and phase 4
\* counts in total_out_msgs, out, out_per_sec and eff_out_per_sec exactly the
\* data messages it pops; a tombstone leaves a buffer by a pop from the front
\* that is counted nowhere.
C4_TombstonesNeverSent == [](NoTombstoneQueued) /\ [][EmitCountsData]_vars

\* Phase 4 has dropped a tombstone and has emitted data at the same node.
C4_Witness ==
  /\ pc = "emit"
  /\ hist.dropped > 0
  /\ \E i \in DOMAIN nodes : nodes[i].total_out_msgs > 0 /\ nodes[i].out > 0

\* The shape init() is to leave on tree k.
TreeShapeOn(k) ==
  /\ Cardinality({i \in NodeIds(cfg) : nodes[i].p[k] = -1}) = 1
  /\ \A i \in NodeIds(cfg) :
       IF IsHub(cfg, i)
         THEN nodes[i].p[k] # -1 =>
                /\ nodes[i].p[k] \in NodeIds(cfg)
                /\ IsHub(cfg, nodes[i].p[k])
                /\ nodes[nodes[i].p[k]].level[k] < nodes[i].level[k]
         ELSE /\ nodes[i].p[k] = HubOf(cfg, i)
              /\ nodes[i].level[k] = -1
  /\ nodes[trees[k][0]].p[k] = -1
  /\ \A x \in 1 .. (cfg.nracks - 1) :
       nodes[trees[k][x]].p[k] = trees[k][(x - 1) \div cfg.fanout]

\* C5 as stated: after init, on every tree exactly one node has p = -1, every
\* other rack hub has a parent that is a rack hub of strictly smaller level
\* (the hub at layout position (x-1)/fanout), and every non-hub node points
\* at its rack hub with level -1.
C5_AsStated ==
  (pc = "tick" /\ ValidConfig(cfg)) => \A k \in TreeIds(cfg) : TreeShapeOn(k)

\* C6 as stated: with nthreads > 1 the chunks handed to the workers are
\* disjoint and cover every node, so when the workers have been joined every
\* node has run phases 1 to 3 once in every tick so far.
C6_AsStated ==
  (Built /\ cfg.nthreads > 1) =>
    /\ pc = "work" =>
         \A i \in NodeIds(cfg) :
           Cardinality({ w \in DOMAIN workers :
                          ChunkBegin(cfg, w) <= i /\ i < ChunkEnd(cfg, w) }) = 1
    /\ pc = "emit" => \A i \in NodeIds(cfg) : Len(hist.gen[i]) = t + 1

\* C7 as stated: whenever the reporter is about to run, every node's
\* in_per_sec is at most in_limit * ticks and its out_per_sec at most
\* out_limit * ticks.
C7_AsStated ==
  pc = "log" =>
    \A i \in DOMAIN nodes :
      /\ nodes[i].in_per_sec <= nodes[i].in_limit * TicksPerSec
      /\ nodes[i].out_per_sec <= nodes[i].out_limit * TicksPerSec

\* A step that pops a queue pops a message of the smallest time in it.
AdmitTakesMin ==
  \A i \in DOMAIN nodes :
    (pc = "work" /\ nodes'[i].q # nodes[i].q) =>
      \E m \in BagToSet(nodes[i].q) :
        /\ nodes'[i].q = nodes[i].q (-) SetToBag({m})
        /\ \A o \in BagToSet(nodes[i].q) : m.time <= o.time

\* C8 as stated: every message popped from an in_queue in phase 1 has the
\* smallest time among the messages in that queue at the moment of the pop.
C8_AsStated == [][AdmitTakesMin]_vars

\* Messages that round-robin puts on tree k in tick tt.
RoundRobinShare(c, tt, k) ==
  Cardinality({ j \in 0 .. (c.msgs_per_tick - 1) : (j + tt) % NTrees(c) = k })

\* C9 as stated: when phases 1 to 3 of tick t are over, every node has
\* generated in every tick so far its j-th message on tree (j+tick) mod T,
\* every buffered message sits in the buffer of its tree, and over any T
\* consecutive ticks the node generated msgs_per_tick messages on each tree.
C9_AsStated ==
  (Built /\ pc = "emit") =>
    \A i \in NodeIds(cfg) :
      /\ Len(hist.gen[i]) = t + 1
      /\ \A x \in DOMAIN hist.gen[i] : \A k \in TreeIds(cfg) :
           hist.gen[i][x][k] = RoundRobinShare(cfg, x - 1, k)
      /\ \A k \in TreeIds(cfg) : \A x \in DOMAIN nodes[i].buf[k] :
           nodes[i].buf[k][x].tree = k
      /\ \A s \in 1 .. (Len(hist.gen[i]) - NTrees(cfg) + 1) :
           \A k \in TreeIds(cfg) :
             SumFn([x \in s .. (s + NTrees(cfg) - 1) |-> hist.gen[i][x][k]])
               = cfg.msgs_per_tick

\* C10: every data message held in a buffer or a queue has eff_size >= 1,
\* the eff_size > 0 assertion at emission never fails, and at every node
\* eff_out_per_sec >= out_per_sec.
C10_EffSizePositive ==
  Built =>
    /\ pc # "fatal"
    /\ \A i \in DOMAIN nodes :
         /\ \A k \in DOMAIN nodes[i].buf : \A x \in DataAt(nodes[i].buf[k]) :
              nodes[i].buf[k][x].eff_size >= 1
         /\ \A m \in BagToSet(nodes[i].q) : m.type = 0 => m.eff_size >= 1
         /\ nodes[i].eff_out_per_sec >= nodes[i].out_per_sec

\* A node has emitted a message that absorbed others, and a merged message
\* waits in a queue.
C10_Witness ==
  /\ Built
  /\ \E i \in DOMAIN nodes : nodes[i].eff_out_per_sec > nodes[i].out_per_sec
  /\ \E i \in DOMAIN nodes : \E m \in BagToSet(nodes[i].q) : m.eff_size > 1

----------------------------------------------------------------------------
\* A node admits messages only in phase 1, and only messages that were
\* pushed into its queue in an earlier tick.
AdmitAfterPush ==
  \A i \in DOMAIN nodes :
    nodes'[i].total_in_msgs # nodes[i].total_in_msgs =>
      pc = "work" /\ hist.last_push[i] < t

\* While phase 4 runs, queues only gain messages and buffers only lose them.
EmitStaysQueued ==
  pc = "emit" =>
    \A i \in DOMAIN nodes :
      /\ nodes[i].q \sqsubseteq nodes'[i].q
      /\ \A k \in DOMAIN nodes[i].buf :
           Len(nodes'[i].buf[k]) <= Len(nodes[i].buf[k])

\* C11: a message emitted by a child in phase 4 of tick t enters its parent's
\* buffer no earlier than phase 1 of tick t+1, whatever the two node ids are,
\* and no message is emitted by two different nodes in the same tick.
C11_HopLatency == [][AdmitAfterPush /\ EmitStaysQueued]_vars

\* Phase 4 of a tick is over, a parent with a larger id than all its children
\* on tree k got a message on tree k in this tick and still holds it queued,
\* and that parent has admitted messages in earlier ticks.
C11_Witness ==
  /\ pc = "emit" /\ emit_i = TotalNodes(cfg)
  /\ \E i \in DOMAIN nodes : \E k \in TreeIds(cfg) :
       LET par == nodes[i].p[k]
       IN  /\ par > i
           /\ \A o \in DOMAIN nodes : nodes[o].p[k] = par => o < par
           /\ hist.last_push[par] = t
           /\ \E m \in BagToSet(nodes[par].q) : m.tree = k
           /\ nodes[par].total_in_msgs > 0

----------------------------------------------------------------------------
\* C12 as stated: once get_next_key() has refilled from a file that is
\* missing, too short, or holds a word or a negative token, the run is in the
\* fatal-assertion state, and no key is ever returned that was not read from
\* a file.
C12_AsStated ==
  Built => /\ hist.bad_refill => pc = "keyfatal"
           /\ hist.unread_keys = 0

\* C13 as stated: with nracks <= 0 or fanout < 2 init() ends in an error
\* state with a diagnostic; it neither goes on to build trees and simulate
\* nor dies on an index into a node array.
C13_AsStated == ~ValidConfig(cfg) => pc \in {"start", "rejected"}

\* Runs of one node on one tree and one thread with an ample outbound limit
\* and sound key files.  Two such runs that differ only in gc_policy generate the same bytes
\* in every tick, so at every report they agree on the root's self_per_sec.
OneNodeRun ==
  /\ TotalNodes(cfg) = 1 /\ ~cfg.multitree /\ cfg.nthreads = 1
  /\ cfg.fault = NoFault /\ Ample(cfg.out_limit)

\* C14 as stated, on runs of one node: at every report the run with
\* gc_policy = 0 shows the root's eff_out_per_sec equal to what the root
\* generated in that second, and the run with the same flags and keys but
\* gc_policy >= 1 shows an eff_out_per_sec that is not smaller.
C14_AsStated ==
  (pc = "log" /\ OneNodeRun) =>
    IF cfg.gc_policy = 0
      THEN nodes[0].eff_out_per_sec = nodes[0].self_per_sec
      ELSE nodes[0].eff_out_per_sec >= nodes[0].self_per_sec

\* Two buffer slots hold the same message, up to what GC may change.
SameSlot(a, b) == a.key = b.key /\ a.time = b.time /\ a.tree = b.tree

\* The data messages among the first d slots of a buffer.
DataInPrefix(b, d) == Cardinality({x \in 1 .. d : b[x].type = 0})

\* In one step buffer old becomes new by losing its first d slots, keeping
\* every other slot in place and gaining slots at the back.
PopFrontOnly(old, new, d) ==
  /\ Len(new) >= Len(old) - d
  /\ \A x \in 1 .. (Len(old) - d) : SameSlot(new[x], old[x + d])

\* The number of slots a buffer lost in a step.
Lost(old, new) == IF Len(new) < Len(old) THEN Len(old) - Len(new) ELSE 0

\* Every step takes slots off the front of a buffer only, does so in phase 4
\* only, and the node counts one emission for every data message taken off.
FifoStep ==
  \A i \in DOMAIN nodes :
    /\ \A k \in DOMAIN nodes[i].buf :
         LET old == nodes[i].buf[k]
             new == nodes'[i].buf[k]
         IN  /\ PopFrontOnly(old, new, Lost(old, new))
             /\ Lost(old, new) > 0 => pc = "emit" /\ emit_i = i
    /\ nodes'[i].total_out_msgs - nodes[i].total_out_msgs =
         SumFn([k \in DOMAIN nodes[i].buf |->
                  DataInPrefix(nodes[i].buf[k],
                               Lost(nodes[i].buf[k], nodes'[i].buf[k]))])

\* C15: at every node and tree, data messages leave buf[k] in the order in
\* which they were appended; a slot is removed by pop-front only, so a
\* tombstone behind other slots stays in the buffer until everything in front
\* of it has been emitted or dropped.
C15_FifoEmission == [][FifoStep]_vars

\* Phase 4 has run at a node that emitted in this tick and still holds a
\* data message with a tombstone behind it.
C15_Witness ==
  /\ pc = "emit"
  /\ \E i \in DOMAIN nodes : \E k \in DOMAIN nodes[i].buf :
       /\ emit_i > i /\ nodes[i].out > 0
       /\ Len(nodes[i].buf[k]) >= 2
       /\ nodes[i].buf[k][1].type = 0
       /\ \E x \in 2 .. Len(nodes[i].buf[k]) : nodes[i].buf[k][x].type = 1

\* The n-th key (0-based) of the stream data-0, data-1, ...
StreamKey(n) == FileToken(cfg, n \div KeySize, n % KeySize)

\* A step in which get_next_key() returned hands out the next key of the
\* stream: the message it appended carries it.
DrawsNextKey ==
  (pc = "work" /\ hist'.generated # hist.generated) =>
    /\ hist'.generated = hist.generated + 1
    /\ \E i \in DOMAIN nodes : \E k \in DOMAIN nodes[i].buf :
         /\ Len(nodes'[i].buf[k]) = Len(nodes[i].buf[k]) + 1
         /\ nodes'[i].buf[k][Len(nodes'[i].buf[k])].key =
              StreamKey(hist.generated)

\* The cursor of the key buffer stands after the keys handed out so far, and
\* when phases 1 to 3 of tick t are over the nodes have drawn msgs_per_tick
\* keys each in every tick.
KeysDrawnPerTick ==
  (Built /\ cfg.fault = NoFault) =>
    /\ hist.generated > 0 =>
         keys.fid * KeySize + keys.next = hist.generated
    /\ pc = "emit" =>
         hist.generated = (t + 1) * TotalNodes(cfg) * cfg.msgs_per_tick

\* C16 as stated: whatever the interleaving of the workers, the keys returned
\* by get_next_key(), in the order of the calls, are the tokens of data-0,
\* data-1, ... in order, each once, also across a refill, and in every tick
\* the keys drawn are the next sum-of-msgs_per_tick keys of the stream.
C16_AsStated ==
  [](KeysDrawnPerTick) /\ [][cfg.fault = NoFault => DrawsNextKey]_vars

\* Phase 3 walks buf[k] of node n at tick tt.
GcTick(n, k, tt) == n.gc[k] /\ tt % cfg.gc_period = 0 /\ n.buf[k] # <<>>

\* Buffer new is what the walk is to leave of buffer old.
Compacted(old, new) ==
  /\ Len(new) = Len(old)
  /\ \A x, y \in DataAt(new) : x # y => new[x].key # new[y].key
  /\ \A x \in DataAt(new) :
       /\ old[x].type = 0
       /\ \A y \in DataAt(old) : old[y].key = old[x].key => x <= y
       /\ new[x].eff_size =
            SumFn([y \in {z \in DataAt(old) : old[z].key = old[x].key} |->
                     old[y].eff_size])

\* The node a worker leaves when it steps out of phase 3, before and after.
CompactPost ==
  \A w \in DOMAIN workers :
    (pc = "work" /\ workers[w].ph = "gen" /\ workers'[w].ph = "begin") =>
      LET old == nodes[workers[w].cur]
          new == nodes'[workers[w].cur]
          walked == {k \in DOMAIN old.buf : GcTick(old, k, t)}
      IN  /\ \A k \in walked :
               /\ Compacted(old.buf[k], new.buf[k])
               /\ GcWalk(new.buf[k], 0, Len(new.buf[k]), EmptyTable, 0) =
                    [buf |-> new.buf[k], saved |-> 0]
          /\ new.saved_per_sec - old.saved_per_sec =
               MsgSize * SumFn([k \in walked |->
                                  Cardinality(DataAt(old.buf[k]) \
                                                DataAt(new.buf[k]))])

\* C17 as stated: after phase 3 has walked buf[k], the data messages of the
\* buffer have pairwise distinct keys, the survivor of a key is the earliest
\* data message that held it and carries the sum of the eff_size of all data
\* messages of that key, saved counts the slots turned into tombstones, and
\* a second walk changes nothing and saves 0.
C17_AsStated == [][CompactPost]_vars

\* Every data message that a walk turns into a tombstone has an earlier data
\* message of the same 64-bit key in the buffer.
AbsorbsEqualKeys ==
  \A w \in DOMAIN workers :
    (pc = "work" /\ workers[w].ph = "gen" /\ workers'[w].ph = "begin") =>
      LET old == nodes[workers[w].cur]
          new == nodes'[workers[w].cur]
      IN  \A k \in DOMAIN old.buf :
            \A x \in DataAt(old.buf[k]) \ DataAt(new.buf[k]) :
              \E y \in DataAt(old.buf[k]) :
                y < x /\ old.buf[k][y].key = old.buf[k][x].key

\* C18 as stated: GC absorbs a data message into an earlier position only if
\* the two 64-bit keys are equal, also for keys that differ but agree in
\* their low 32 bits.
C18_AsStated == [][AbsorbsEqualKeys]_vars

\* Slot b is slot a as a walk may leave it: the same message, still data
\* with an eff_size that has not shrunk, or data turned into a tombstone of
\* unchanged eff_size, or an untouched tombstone.
WalkedSlot(a, b) ==
  /\ SameSlot(a, b)
  /\ \/ a.type = 0 /\ b.type = 0 /\ b.eff_size >= a.eff_size
     \/ a.type = 0 /\ b.type = 1 /\ b.eff_size = a.eff_size
     \/ a.type = 1 /\ b = a

\* The step that ends phase 2 and runs phase 3 at a node changes, besides the
\* self and saved counters of that node, only slots of buffers that are due
\* for a walk, and those only as a walk may.
GcFrame ==
  \A w \in DOMAIN workers :
    (pc = "work" /\ workers[w].ph = "gen" /\ workers'[w].ph = "begin") =>
      LET i == workers[w].cur
          old == nodes[i]
          new == nodes'[i]
      IN  /\ \A o \in DOMAIN nodes : o # i => nodes'[o] = nodes[o]
          /\ new = [old EXCEPT !.buf = new.buf,
                               !.self_per_sec = new.self_per_sec,
                               !.saved_per_sec = new.saved_per_sec]
          /\ \A k \in DOMAIN old.buf :
               /\ Len(new.buf[k]) = Len(old.buf[k])
               /\ \A x \in DOMAIN old.buf[k] :
                    WalkedSlot(old.buf[k][x], new.buf[k][x])
               /\ ~GcTick(old, k, t) => new.buf[k] = old.buf[k]

\* C19: phase 3 changes no buffer length, no position and no key, time or
\* tree of a message; it only turns absorbed data messages into tombstones
\* and raises the eff_size of survivors, only in buf[k] of trees with gc[k]
\* set on ticks with t mod gc_period = 0, and it touches no in_queue and no
\* other node.
C19_GcFrame == [][GcFrame]_vars

\* In a tick that is not a GC tick, a node that has been through phase 3
\* holds a tombstone of an earlier walk and two unmerged data messages of
\* one key in a buffer with gc set, and another node has a queued message.
C19_Witness ==
  /\ pc = "work" /\ t % cfg.gc_period # 0
  /\ \E w \in DOMAIN workers : \E i \in DOMAIN nodes :
       /\ workers[w].ph = "begin" /\ i < workers[w].cur
       /\ i >= ChunkBegin(cfg, w)
       /\ \E k \in DOMAIN nodes[i].buf :
            /\ nodes[i].gc[k]
            /\ TombAt(nodes[i].buf[k]) # {}
            /\ \E x, y \in DataAt(nodes[i].buf[k]) :
                 x < y /\ nodes[i].buf[k][x].key = nodes[i].buf[k][y].key
  /\ \E o \in DOMAIN nodes : nodes[o].q # EmptyBag

\* The ids of the rack hubs.
HubIds(c) == {i \in NodeIds(c) : IsHub(c, i)}

\* C20 as stated: with a proper configuration init() makes no swap whose
\* partner index j + k*I lies outside [0, R), so it ends with every layout
\* trees[k] a permutation of the R rack-hub ids.
C20_AsStated ==
  (pc # "start" /\ ValidConfig(cfg)) =>
    /\ OobReads(cfg) = {}
    /\ pc = "tick"
    /\ \A k \in TreeIds(cfg) :
         {trees[k][j] : j \in 0 .. (cfg.nracks - 1)} = HubIds(cfg)

\* The rack hubs that have a rack hub as a child on tree k.
InternalOn(k) ==
  {h \in HubIds(cfg) : \E c \in HubIds(cfg) : nodes[c].p[k] = h}

\* The trees are several and their internal nodes fit side by side.
RotationFits ==
  /\ ValidConfig(cfg) /\ NTrees(cfg) > 1
  /\ NTrees(cfg) * get_internal_node_count(cfg.fanout, cfg.nracks)
       <= cfg.nracks

\* C21: when T > 1 and T * I <= R, no rack hub is internal (parent of a rack
\* hub) on two different trees, and the trees have different roots.
C21_InternalRotation ==
  (pc = "tick" /\ RotationFits) =>
    \A k1, k2 \in TreeIds(cfg) :
      k1 # k2 =>
        /\ InternalOn(k1) \cap InternalOn(k2) = {}
        /\ trees[k1][0] # trees[k2][0]
        /\ nodes[trees[k1][0]].p[k1] = -1

\* init() has built three trees with two internal hubs each.
C21_Witness ==
  /\ pc = "tick" /\ RotationFits
  /\ NTrees(cfg) = 3
  /\ \A k \in TreeIds(cfg) : Cardinality(InternalOn(k)) = 2

\* The delay the policy gives a hub of level l in a tree of L levels with
\* budget A.
PolicyDelay(policy, A, L, l) ==
  CASE policy = 1 -> A \div L
    [] policy = 2 -> (A * (L - l)) \div ((L * (L + 1)) \div 2)
    [] policy = 3 -> (A * (l + 1)) \div ((L * (L + 1)) \div 2)

\* C22 as stated: under gc_policy 1, 2 and 3 every rack hub and no other node
\* has gc set on every tree, the hubs of a tree sit on levels 0 .. L-1 and
\* carry the truncated delay of their level, the delays of one hub per level
\* sum to at most A and to more than A - L, and a hub's delay is at most its
\* parent's under policy 2 and at least its parent's under policy 3.
C22_AsStated ==
  (pc = "tick" /\ ValidConfig(cfg) /\ cfg.gc_policy \in 1 .. 3) =>
    LET L == get_tree_levels(cfg.fanout, cfg.nracks)
        A == cfg.gc_acc_delay
    IN  \A k \in TreeIds(cfg) :
          /\ \A i \in NodeIds(cfg) : nodes[i].gc[k] = IsHub(cfg, i)
          /\ {nodes[h].level[k] : h \in HubIds(cfg)} = 0 .. (L - 1)
          /\ \A h \in HubIds(cfg) :
               /\ nodes[h].gc_delay[k] =
                    PolicyDelay(cfg.gc_policy, A, L, nodes[h].level[k])
               /\ (cfg.gc_policy = 2 /\ nodes[h].p[k] # -1) =>
                    nodes[h].gc_delay[k] <= nodes[nodes[h].p[k]].gc_delay[k]
               /\ (cfg.gc_policy = 3 /\ nodes[h].p[k] # -1) =>
                    nodes[h].gc_delay[k] >= nodes[nodes[h].p[k]].gc_delay[k]
          /\ LET total == SumFn([l \in 0 .. (L - 1) |->
                                   PolicyDelay(cfg.gc_policy, A, L, l)])
             IN  total <= A /\ total > A - L

\* C23 as stated, over the ticks of a run: at a node with out_limit >=
\* msg_size, a data message that is due at the front of buf[k] is not passed
\* over in as many ticks running as there are trees while the node spends
\* its out_limit on the other trees.
C23_AsStated ==
  Built =>
    \A i \in DOMAIN hist.passed : \A k \in TreeIds(cfg) :
      nodes[i].out_limit >= MsgSize => hist.passed[i][k] < NTrees(cfg)

\* C24 as stated: a run that ends has invoked the reporter exactly duration
\* times, and whenever the reporter is about to run the per-second counters
\* have accumulated exactly ticks ticks since they were last reset.
C24_AsStated ==
  /\ pc = "done" => hist.reports = cfg.duration
  /\ pc = "log" => hist.ticks_in_report = TicksPerSec

\* Every message held by node n, in its buffers and in its queue.
Held(n) ==
  BagToSet(n.q) \cup
    UNION { { n.buf[k][x] : x \in DOMAIN n.buf[k] } : k \in DOMAIN n.buf }

\* C25: with gc_policy = 0, in every state of a run no buffer holds a
\* tombstone, every message has eff_size 1, every node has saved_per_sec = 0
\* and eff_out_per_sec = out_per_sec; and when in_limit and out_limit are
\* above any load, every buffer of every node is empty at the end of a tick.
C25_PureForwarding ==
  (Built /\ cfg.gc_policy = 0) =>
    \A i \in DOMAIN nodes :
      /\ \A m \in Held(nodes[i]) : m.type = 0 /\ m.eff_size = 1
      /\ nodes[i].saved_per_sec = 0
      /\ nodes[i].eff_out_per_sec = nodes[i].out_per_sec
      /\ (AtTickBoundary /\ Ample(cfg.in_limit) /\ Ample(cfg.out_limit)) =>
           \A k \in DOMAIN nodes[i].buf : nodes[i].buf[k] = <<>>

\* A policy 0 run with ample limits on two trees has forwarded messages from
\* node to node, some with equal keys, and has emitted some at a root.
C25_Witness ==
  /\ pc = "done" /\ cfg.gc_policy = 0 /\ NTrees(cfg) > 1
  /\ Ample(cfg.in_limit) /\ Ample(cfg.out_limit)
  /\ hist.root_msgs > 2
  /\ \E i \in DOMAIN nodes : nodes[i].total_in_msgs > 1
  /\ \A i \in DOMAIN nodes : \A k \in DOMAIN nodes[i].buf : nodes[i].buf[k] = <<>>

\* Step 4 of tick t has run at every node.
EndOfStep4 == pc = "emit" /\ emit_i >= TotalNodes(cfg)

\* A data message that should have left its root by the end of tick tt, or
\* that has no root to leave from.
Overdue(tt) ==
  { m \in UNION { Held(nodes[i]) : i \in DOMAIN nodes } :
      m.type = 0 /\ m.due <= tt }

\* C26 as stated: when in_limit and out_limit never bind, every message a
\* root emits is emitted exactly at its generation tick + the level of the
\* generating hub + the gc_delay[k] of that hub and of all its ancestors (one
\* tick more from a non-hub node), and at the end of a tick no message that
\* was not absorbed is still on its way past that tick.
C26_AsStated ==
  (Built /\ NeverBinds(cfg)) =>
    /\ hist.mistimed = 0
    /\ EndOfStep4 => Overdue(t) = {}

\* C27: in every state of a run, in every buffer of every node, the time
\* fields of the messages, tombstones included, are non-decreasing with
\* position; so a front message that is not yet due has no due message
\* behind it.
C27_SortedByTime ==
  Built =>
    \A i \in DOMAIN nodes : \A k \in DOMAIN nodes[i].buf :
      LET b == nodes[i].buf[k]
      IN  /\ \A x, y \in DOMAIN b : x < y => b[x].time <= b[y].time
          /\ (b # <<>> /\ Head(b).time > t) =>
               \A x \in DOMAIN b : b[x].time > t

\* A buffer holds a data message, then a tombstone, then a message of a
\* later time, after admissions from a child.
C27_Witness ==
  \E i \in DOMAIN nodes : \E k \in DOMAIN nodes[i].buf :
    LET b == nodes[i].buf[k]
    IN  /\ Built /\ Len(b) >= 3 /\ nodes[i].total_in_msgs > 0
        /\ b[1].type = 0 /\ b[2].type # 0
        /\ b[1].time < b[Len(b)].time

====
